---- MODULE Spec2Model ----
(***************************************************************************)
(* Model of apps/health/views.py: HealthCheckView, a DRF APIView whose     *)
(* get() probes the default database connection and answers                *)
(* {"status": "ok", "database": "up" | "down"}.                            *)
(*                                                                         *)
(* Several worker slots handle requests concurrently.  Each invocation of  *)
(* get() is followed through its statements (pc holds the source line      *)
(* about to run).  The database is an external collaborator: the result of *)
(* connections["default"].cursor() is chosen by the environment at the     *)
(* moment of the call.                                                     *)
(***************************************************************************)
EXTENDS Naturals, Sequences, FiniteSets

\* Number of worker slots handling requests at the same time.
NumWorkers == 2

Workers == 1..NumWorkers

\* What a client may send.  The view is free to look at any of it.
Credentials == {"none", "valid"}
Contents == {"plain", "extra"}
Requests == [creds : Credentials, content : Contents]

\* Ways connections["default"].cursor() can raise: the driver's timeout,
\* connection refused, a rejected database login (all django.db
\* OperationalError) and a missing "default" alias, raised by the lookup
\* connections["default"] itself (ConnectionDoesNotExist).
FailureModes == {"timeout", "refused", "auth_failed", "no_default"}
Outcomes == {"ok"} \cup FailureModes

NoRequest == [creds |-> "-", content |-> "-"]

VARIABLES
    pc,          \* per worker: "idle", "line12" (in get, before the try), "line17", "done"
    request,     \* per worker: the request object passed to get()
    outcome,     \* per worker: what the probe of this invocation did ("none" before it)
    db_status,   \* per frame: the local variable db_status ("unset" while unbound)
    probes,      \* per worker: number of calls of connections["default"].cursor()
    responses,   \* per worker: the responses sent for the current request
    raised,      \* per worker: the exception that left get() ("none" if none did)
    latest,      \* the worker that sent the most recent response, 0 once its cycle is over
    earlier      \* probe results ("ok"/"failed") of the requests answered before that one

vars == <<pc, request, outcome, db_status, probes, responses, raised, latest, earlier>>

----------------------------------------------------------------------------
\* The class hierarchy of what the probe raises.
ExceptionClass(kind) ==
    IF kind = "no_default" THEN "ConnectionDoesNotExist" ELSE "OperationalError"

Bases(class) ==
    IF class = "OperationalError"
    THEN {"OperationalError", "DatabaseError", "Error", "Exception", "BaseException"}
    ELSE {class, "Exception", "BaseException"}

\* A narrower handler: except DatabaseError.
CaughtDatabaseErrorOnly(kind) == "DatabaseError" \in Bases(ExceptionClass(kind))

\* Line 14: except Exception.
Caught(kind) == "Exception" \in Bases(ExceptionClass(kind))

\* A handler that keeps the error text: except Exception as e: db_status = str(e).
ExceptValueLeak(kind) == kind

\* Line 15: db_status = "down".
ExceptValue(kind) == "down"

\* Lines 11-15: the value the try statement binds to db_status.
TryValue(o) == IF o = "ok" THEN "up" ELSE ExceptValue(o)

\* db_status kept in one place shared by all invocations (a class attribute).
SharedFrame(w) == 1

\* Lines 13, 15, 20: db_status is a local variable of the invocation's own frame.
Frame(w) == w

\* A handler that tries again when the probe raised.
AfterTryRetry(o) == IF o = "ok" THEN "line17" ELSE "line12"

\* Lines 11-17: whatever the probe did, control goes on to the return statement.
AfterTry(o) == "line17"

\* A view that reports an outage through the status code.
ResponseOutage(req, status) ==
    [code |-> IF status = "up" THEN 200 ELSE 503,
     data |-> [status |-> "ok", database |-> status]]

\* A view whose status field follows the database.
ResponseDegraded(req, status) ==
    [code |-> 200,
     data |-> [status |-> IF status = "up" THEN "ok" ELSE "error", database |-> status]]

\* A view that rejects requests carrying anything it does not expect.
ResponseStrict(req, status) ==
    [code |-> IF req.content = "plain" THEN 200 ELSE 400,
     data |-> [status |-> "ok", database |-> status]]

\* Lines 17-22: Response({"status": "ok", "database": db_status}), status 200.
MakeResponse(req, status) ==
    [code |-> 200, data |-> [status |-> "ok", database |-> status]]

\* A view left with a project-wide default permission.
IsAuthenticatedOnly == {"IsAuthenticated"}

\* Line 7.
authentication_classes == {}

\* Line 8.
permission_classes == {}

\* Dispatch of this view: every authenticator is tried, then every permission
\* class must grant.
Authenticated(req) == \E a \in authentication_classes : req.creds = "valid"
Grants(p, req) == IF p = "IsAuthenticated" THEN Authenticated(req) ELSE TRUE
Permitted(req) == \A p \in permission_classes : Grants(p, req)

Denied(req) == [code |-> 403, data |-> [status |-> "denied", database |-> "-"]]
ServerError == [code |-> 500, data |-> [status |-> "error", database |-> "-"]]

\* Success or failure of a probe.
Class(o) == IF o = "ok" THEN "ok" ELSE "failed"

\* The history after worker w sends a response.
EarlierAfterResponse ==
    IF latest = 0 THEN earlier ELSE earlier \cup {Class(outcome[latest])}

----------------------------------------------------------------------------
Init ==
    /\ pc = [w \in Workers |-> "idle"]
    /\ request = [w \in Workers |-> NoRequest]
    /\ outcome = [w \in Workers |-> "none"]
    /\ db_status = [w \in Workers |-> "unset"]
    /\ probes = [w \in Workers |-> 0]
    /\ responses = [w \in Workers |-> <<>>]
    /\ raised = [w \in Workers |-> "none"]
    /\ latest = 0
    /\ earlier = {}

\* A GET arrives at an idle worker and is dispatched to get() (line 10),
\* unless a permission class refuses it.
Receive(w, req) ==
    /\ pc[w] = "idle"
    /\ request' = [request EXCEPT ![w] = req]
    /\ IF Permitted(req)
       THEN /\ pc' = [pc EXCEPT ![w] = "line12"]
            /\ UNCHANGED <<responses, latest, earlier>>
       ELSE /\ pc' = [pc EXCEPT ![w] = "done"]
            /\ responses' = [responses EXCEPT ![w] = <<Denied(req)>>]
            /\ latest' = w
            /\ earlier' = EarlierAfterResponse
    /\ UNCHANGED <<outcome, db_status, probes, raised>>

\* Lines 11-15: connections["default"].cursor() returns or raises, and the
\* try statement binds db_status.
Try(w, o) ==
    /\ pc[w] = "line12"
    /\ probes' = [probes EXCEPT ![w] = @ + 1]
    /\ outcome' = [outcome EXCEPT ![w] = o]
    /\ IF o = "ok" \/ Caught(o)
       THEN /\ db_status' = [db_status EXCEPT ![Frame(w)] = TryValue(o)]
            /\ pc' = [pc EXCEPT ![w] = AfterTry(o)]
            /\ UNCHANGED <<raised, responses, latest, earlier>>
       ELSE \* the exception leaves get(): the client gets no 200
            /\ pc' = [pc EXCEPT ![w] = "done"]
            /\ raised' = [raised EXCEPT ![w] = o]
            /\ responses' = [responses EXCEPT ![w] = <<ServerError>>]
            /\ latest' = w
            /\ earlier' = EarlierAfterResponse
            /\ UNCHANGED db_status
    /\ UNCHANGED request

\* Lines 17-22: the response is built from db_status and returned.
Return(w) ==
    /\ pc[w] = "line17"
    /\ responses' = [responses EXCEPT ![w] =
           Append(@, MakeResponse(request[w], db_status[Frame(w)]))]
    /\ pc' = [pc EXCEPT ![w] = "done"]
    /\ latest' = w
    /\ earlier' = EarlierAfterResponse
    /\ UNCHANGED <<request, outcome, db_status, probes, raised>>

\* The request/response cycle is over: the frame of get() is gone and the
\* worker is free for the next request.
Finish(w) ==
    /\ pc[w] = "done"
    /\ pc' = [pc EXCEPT ![w] = "idle"]
    /\ request' = [request EXCEPT ![w] = NoRequest]
    /\ outcome' = [outcome EXCEPT ![w] = "none"]
    /\ probes' = [probes EXCEPT ![w] = 0]
    /\ responses' = [responses EXCEPT ![w] = <<>>]
    /\ raised' = [raised EXCEPT ![w] = "none"]
    /\ db_status' = [db_status EXCEPT ![Frame(w)] = "unset"]
    /\ IF latest = w
       THEN latest' = 0 /\ earlier' = earlier \cup {Class(outcome[w])}
       ELSE UNCHANGED <<latest, earlier>>

Next ==
    \/ \E w \in Workers, req \in Requests : Receive(w, req)
    \/ \E w \in Workers, o \in Outcomes : Try(w, o)
    \/ \E w \in Workers : Return(w)
    \/ \E w \in Workers : Finish(w)

Spec == Init /\ [][Next]_vars

----------------------------------------------------------------------------
\* Vocabulary of the properties.
Answered(w) == pc[w] = "done"
Resp(w) == responses[w][1]
ProbeFailed(w) == outcome[w] \in FailureModes
ProbeSucceeded(w) == outcome[w] = "ok"
Ok200(db) == [code |-> 200, data |-> [status |-> "ok", database |-> db]]

\* C1: when the probe raises, whatever it raises, no exception leaves get()
\* and the request is answered 200 with database "down".
C1_ProbeErrorGivesDown200 ==
    \A w \in Workers :
        ProbeFailed(w) =>
            /\ raised[w] = "none"
            /\ pc[w] \in {"line17", "done"}
            /\ Answered(w) =>
                  /\ Len(responses[w]) = 1
                  /\ Resp(w).code = 200
                  /\ Resp(w).data.database = "down"

C1_Witness ==
    \E w \in Workers :
        /\ Answered(w)
        /\ outcome[w] = "no_default"
        /\ raised[w] = "none"
        /\ Resp(w).code = 200
        /\ Resp(w).data.database = "down"

\* C2: the database field of a response is "up" or "down", and it is "up"
\* exactly when the probe of that request succeeded.
C2_DatabaseFieldFollowsProbe ==
    \A w \in Workers :
        Answered(w) =>
            /\ Resp(w).data.database \in {"up", "down"}
            /\ (Resp(w).data.database = "up") <=> ProbeSucceeded(w)

C2_Witness ==
    \E w \in Workers :
        Answered(w) /\ ProbeSucceeded(w) /\ Resp(w).data.database = "up"

\* C3: the status field of every response is "ok", whatever the probe did and
\* whatever requests were answered before.
C3_StatusAlwaysOk ==
    \A w \in Workers :
        \A i \in 1..Len(responses[w]) : responses[w][i].data.status = "ok"

C3_Witness ==
    \E w \in Workers :
        /\ Answered(w)
        /\ ProbeFailed(w)
        /\ latest = w
        /\ earlier = {"ok", "failed"}
        /\ Resp(w).data.status = "ok"

\* C4: a request gets no response before get() returns and exactly one once
\* it has; that response is a 200 whose body has exactly the fields status
\* and database, also when the database is out.
C4_ExactlyOne200Response ==
    \A w \in Workers :
        /\ Len(responses[w]) = (IF Answered(w) THEN 1 ELSE 0)
        /\ \A i \in 1..Len(responses[w]) :
              /\ responses[w][i].code = 200
              /\ DOMAIN responses[w][i].data = {"status", "database"}

C4_Witness ==
    \E w \in Workers :
        /\ Answered(w)
        /\ ProbeFailed(w)
        /\ Len(responses[w]) = 1
        /\ Resp(w).code = 200

\* C5: the probe is called exactly once per request: not before line 12 has
\* run, once from then on, and never again after a failure.
C5_ExactlyOneProbe ==
    \A w \in Workers :
        /\ probes[w] <= 1
        /\ pc[w] \in {"idle", "line12"} => probes[w] = 0
        /\ pc[w] \in {"line17", "done"} => probes[w] = 1

C5_Witness ==
    \E w \in Workers : Answered(w) /\ ProbeFailed(w) /\ probes[w] = 1

\* C6: a request without credentials is answered 200, and with the same probe
\* result it gets the very response a request with credentials gets.
C6_NoAuthenticationNeeded ==
    /\ \A w \in Workers :
          Answered(w) /\ request[w].creds = "none" => Resp(w).code = 200
    /\ \A v, w \in Workers :
          /\ Answered(v) /\ Answered(w)
          /\ request[v].creds = "none" /\ request[w].creds = "valid"
          /\ Class(outcome[v]) = Class(outcome[w])
          => Resp(v) = Resp(w)

C6_Witness ==
    \E v, w \in Workers :
        /\ Answered(v) /\ Answered(w)
        /\ request[v].creds = "none" /\ request[w].creds = "valid"
        /\ ProbeSucceeded(v) /\ ProbeSucceeded(w)
        /\ Resp(v) = Resp(w)
        /\ Resp(v).code = 200

\* C7: with several requests in flight, the database field of each response
\* is the result of that request's own probe, not of another request's.
C7_ConcurrentRequestsIndependent ==
    \A v, w \in Workers :
        /\ v # w
        /\ Answered(v)
        /\ outcome[w] # "none"
        /\ Class(outcome[w]) # Class(outcome[v])
        => Resp(v).data.database = (IF ProbeSucceeded(v) THEN "up" ELSE "down")

C7_Witness ==
    \E v, w \in Workers :
        /\ v # w
        /\ Answered(v) /\ Answered(w)
        /\ ProbeSucceeded(v) /\ ProbeFailed(w)
        /\ latest = v
        /\ Resp(v).data.database = "up"
        /\ Resp(w).data.database = "down"

\* C8: nothing is cached.  The most recent response reports its own probe
\* even when every request answered before it had the opposite result, and a
\* step of one invocation changes nothing another invocation holds.
C8_LatestReportsOwnProbe ==
    \A w \in Workers :
        Answered(w) /\ latest = w =>
            /\ ProbeSucceeded(w) /\ earlier \subseteq {"failed"}
                  => Resp(w).data.database = "up"
            /\ ProbeFailed(w) /\ earlier \subseteq {"ok"}
                  => Resp(w).data.database = "down"

C8_StepKeepsOthers ==
    \A v, w \in Workers :
        v # w /\ pc'[w] # pc[w] =>
            /\ db_status'[v] = db_status[v]
            /\ outcome'[v] = outcome[v]
            /\ responses'[v] = responses[v]
            /\ request'[v] = request[v]
            /\ probes'[v] = probes[v]

C8_NothingCached == [](C8_LatestReportsOwnProbe) /\ [][C8_StepKeepsOthers]_vars

C8_Witness ==
    \E w \in Workers :
        /\ Answered(w) /\ latest = w
        /\ ProbeSucceeded(w)
        /\ earlier = {"failed"}
        /\ Resp(w).data.database = "up"

\* C9: the response does not depend on what the request carries: requests
\* that differ in content (or anything else) get identical responses when
\* their probes have the same result.
C9_RequestContentIrrelevant ==
    \A v, w \in Workers :
        /\ Answered(v) /\ Answered(w)
        /\ request[v] # request[w]
        /\ Class(outcome[v]) = Class(outcome[w])
        => Resp(v) = Resp(w)

C9_Witness ==
    \E v, w \in Workers :
        /\ Answered(v) /\ Answered(w)
        /\ request[v].content = "plain" /\ request[w].content = "extra"
        /\ ProbeFailed(v) /\ ProbeFailed(w)
        /\ Resp(v) = Resp(w)

\* C10: the kind of failure is not disclosed: every failing probe is answered
\* 200 {"status": "ok", "database": "down"}, so two probes failing in
\* different ways get identical responses, and no field names the error.
C10_FailureKindHidden ==
    /\ \A w \in Workers :
          Answered(w) /\ ProbeFailed(w) =>
              /\ Resp(w) = Ok200("down")
              /\ \A f \in DOMAIN Resp(w).data :
                    Resp(w).data[f] \notin
                        FailureModes \cup {ExceptionClass(k) : k \in FailureModes}
    /\ \A v, w \in Workers :
          /\ Answered(v) /\ Answered(w)
          /\ ProbeFailed(v) /\ ProbeFailed(w)
          /\ outcome[v] # outcome[w]
          => Resp(v) = Resp(w)

C10_Witness ==
    \E v, w \in Workers :
        /\ Answered(v) /\ Answered(w)
        /\ outcome[v] = "timeout" /\ outcome[w] = "no_default"
        /\ Resp(v) = Resp(w)
        /\ Resp(v) = Ok200("down")

====
